---- MODULE Spec2Model ----
(***************************************************************************)
(* Model of app.py, the Streamlit bulk e-mail sender:                      *)
(*   - send_bulk_emails (connect, TLS, login, per-recipient loop, quit),   *)
(*   - the "Send emails" button handler that drives it one recipient at a  *)
(*     time,                                                               *)
(*   - parse_recipients_from_text and parse_recipients_from_csv.           *)
(* The SMTP server is the environment: every call into smtplib has its     *)
(* outcome chosen nondeterministically. Whether pandas.read_csv raises     *)
(* follows from the file's records; the frame it returns otherwise is      *)
(* chosen among all frames of the modelled layouts.                        *)
(***************************************************************************)
EXTENDS Integers, Sequences, FiniteSets, TLC

\* ------------------------------------------------------------------ bounds
MaxRecipients == 3
MaxTextLen == 6
MaxRows == 3

\* ------------------------------------------------------------- vocabulary
Addr == {"a@x", "b@x"}
\* Python's None, as the recipient of the connection-error record.
None == "None"
\* str(e) of an exception the SMTP library (or build_message) raises and that
\* "except Exception" catches.
Faults == {"timed out", "refused"}
\* An exception that is a BaseException but no Exception (KeyboardInterrupt):
\* "except Exception" does not catch it.
Interrupt == "KeyboardInterrupt"
\* ssl.create_default_context(): the certificate-verifying default context.
DefaultContext == "default_context"

SeqsUpTo(S, n) == UNION {[1..k -> S] : k \in 0..n}

VARIABLES
    \* the form's state that the send handler reads
    sender_email, sender_password, recipients, use_ssl,
    \* the send handler: its position, loop index, aggregated results, and the
    \* recipient lists it has passed to send_bulk_emails so far
    hpc, i, report, calls,
    \* one invocation of send_bulk_emails: position, arguments, locals
    pc, rcpts, ssl_arg, context, results, idx, escaped,
    \* the server object of the invocation and what was done with it, in order
    server, log,
    \* connections opened and not yet closed, over all invocations
    openSessions,
    \* the recipient parsers: position, input, output
    ppc, text, emails, csv

senderVars == <<sender_email, sender_password, recipients, use_ssl, hpc, i,
                report, calls, pc, rcpts, ssl_arg, context, results, idx,
                escaped, server, log, openSessions>>
parserVars == <<ppc, text, emails, csv>>
vars == <<senderVars, parserVars>>

\* ------------------------------------------------------- send_bulk_emails
Event(op, arg, out) == [op |-> op, arg |-> arg, out |-> out]

ErrorRecord(e) == [recipient |-> None, status |-> "error", error |-> e]
SentRecord(r) == [recipient |-> r, status |-> "sent", error |-> ""]
FailedRecord(r, e) == [recipient |-> r, status |-> "failed", error |-> e]

\* Lines 78-81: the call binds the arguments and creates results and context.
Invoke(rs, ssl) ==
    /\ pc' = "connect"
    /\ rcpts' = rs
    /\ ssl_arg' = ssl
    /\ context' = DefaultContext
    /\ results' = <<>>
    /\ idx' = 1
    /\ escaped' = FALSE
    /\ server' = "none"
    /\ log' = <<>>

\* The handler swallowing the exception and going on to the loop.
ConnectExcept_Continue(e) ==
    /\ UNCHANGED results
    /\ pc' = "loop"

\* Lines 91-93: the handler of the connect/login try block.
ConnectExcept(e) ==
    /\ results' = <<ErrorRecord(e)>>
    /\ pc' = "returned"

\* Line 84 or 86: open the connection.
Connect ==
    /\ pc = "connect"
    /\ \E out \in {"ok"} \cup Faults :
        /\ log' = Append(log, IF ssl_arg THEN Event("SMTP_SSL", context, out)
                                         ELSE Event("SMTP", "", out))
        /\ IF out = "ok"
              THEN /\ server' = IF ssl_arg THEN "tls" ELSE "plain"
                   /\ openSessions' = openSessions + 1
                   /\ pc' = IF ssl_arg THEN "login" ELSE "ehlo1"
                   /\ UNCHANGED results
              ELSE /\ ConnectExcept(out)
                   /\ UNCHANGED <<server, openSessions>>
    /\ UNCHANGED <<sender_email, sender_password, recipients, use_ssl, hpc, i,
                   report, calls, rcpts, ssl_arg, context, idx, escaped>>
    /\ UNCHANGED parserVars

\* Lines 87 and 89: server.ehlo(), before and after the upgrade.
Ehlo ==
    /\ pc \in {"ehlo1", "ehlo2"}
    /\ \E out \in {"ok"} \cup Faults :
        /\ log' = Append(log, Event("ehlo", server, out))
        /\ IF out = "ok"
              THEN /\ pc' = IF pc = "ehlo1" THEN "starttls" ELSE "login"
                   /\ UNCHANGED results
              ELSE ConnectExcept(out)
    /\ UNCHANGED <<sender_email, sender_password, recipients, use_ssl, hpc, i,
                   report, calls, rcpts, ssl_arg, context, idx, escaped,
                   server, openSessions>>
    /\ UNCHANGED parserVars

\* A starttls that reports a refusal in its return value only.
StartTlsRaises_Never(out) == FALSE

\* Line 88: server.starttls(context=context) raises unless the server answered
\* 220 and the handshake completed.
StartTlsRaises(out) == out # "ok"

StartTls ==
    /\ pc = "starttls"
    /\ \E out \in {"ok"} \cup Faults :
        /\ log' = Append(log, Event("starttls", context, out))
        /\ server' = IF out = "ok" THEN "tls" ELSE server
        /\ IF StartTlsRaises(out)
              THEN ConnectExcept(out)
              ELSE /\ pc' = "ehlo2"
                   /\ UNCHANGED results
    /\ UNCHANGED <<sender_email, sender_password, recipients, use_ssl, hpc, i,
                   report, calls, rcpts, ssl_arg, context, idx, escaped,
                   openSessions>>
    /\ UNCHANGED parserVars

\* Line 90: server.login(sender, password). The event records the transport
\* the credentials travel over.
Login ==
    /\ pc = "login"
    /\ \E out \in {"ok"} \cup Faults :
        /\ log' = Append(log, Event("login", server, out))
        /\ IF out = "ok"
              THEN /\ server' = "authed"
                   /\ pc' = "loop"
                   /\ UNCHANGED results
              ELSE /\ ConnectExcept(out)
                   /\ UNCHANGED server
    /\ UNCHANGED <<sender_email, sender_password, recipients, use_ssl, hpc, i,
                   report, calls, rcpts, ssl_arg, context, idx, escaped,
                   openSessions>>
    /\ UNCHANGED parserVars

\* Lines 98-99: what one pass of the loop does with the server, for the
\* outcome b of build_message and s of send_message.
AttemptEvents(r, b, s) ==
    IF b = "ok" THEN <<Event("build", r, b), Event("send", r, s)>>
                ELSE <<Event("build", r, b)>>

\* The exception the pass raises, "ok" when none.
AttemptRaised(b, s) == IF b = "ok" THEN s ELSE b

\* A pass that records 'sent' whether or not it raised.
AttemptRecord_AlwaysSent(r, e) == SentRecord(r)

\* Lines 100-102: the record one pass appends.
AttemptRecord(r, e) == IF e = "ok" THEN SentRecord(r) ELSE FailedRecord(r, e)

\* Lines 96-102: one pass of the per-recipient loop.
Attempt ==
    /\ pc = "loop"
    /\ idx <= Len(rcpts)
    /\ \E b \in {"ok", Interrupt} \cup Faults, s \in {"ok", Interrupt} \cup Faults :
        LET r == rcpts[idx]
            e == AttemptRaised(b, s)
        IN  /\ log' = log \o AttemptEvents(r, b, s)
            /\ IF e = Interrupt
                  THEN /\ escaped' = TRUE
                       /\ pc' = "finally"
                       /\ UNCHANGED <<results, idx>>
                  ELSE /\ results' = Append(results, AttemptRecord(r, e))
                       /\ idx' = idx + 1
                       /\ UNCHANGED <<pc, escaped>>
    /\ UNCHANGED <<sender_email, sender_password, recipients, use_ssl, hpc, i,
                   report, calls, rcpts, ssl_arg, context, server,
                   openSessions>>
    /\ UNCHANGED parserVars

\* Line 96: the loop is exhausted.
LoopEnd ==
    /\ pc = "loop"
    /\ idx > Len(rcpts)
    /\ pc' = "finally"
    /\ UNCHANGED <<sender_email, sender_password, recipients, use_ssl, hpc, i,
                   report, calls, rcpts, ssl_arg, context, results, idx,
                   escaped, server, log, openSessions>>
    /\ UNCHANGED parserVars

\* A finally block without the fallback to close.
FinallyEvents_NoClose(q) == <<Event("quit", "", q)>>

\* Lines 104-107: server.quit(), and server.close() when quit raised.
FinallyEvents(q) ==
    IF q = "ok" THEN <<Event("quit", "", q)>>
                ELSE <<Event("quit", "", q), Event("close", "", "ok")>>

\* Lines 103-108: the finally block, then the return (or the exception that
\* left the loop goes on to the caller).
Finally ==
    /\ pc = "finally"
    /\ \E q \in {"ok"} \cup Faults :
        log' = log \o FinallyEvents(q)
    /\ server' = "closed"
    /\ openSessions' = openSessions - 1
    /\ pc' = IF escaped THEN "raised" ELSE "returned"
    /\ UNCHANGED <<sender_email, sender_password, recipients, use_ssl, hpc, i,
                   report, calls, rcpts, ssl_arg, context, results, idx,
                   escaped>>
    /\ UNCHANGED parserVars

\* ------------------------------------------------- the send button handler
\* The click without its check for recipients.
ClickOutcome_NoRecipientCheck ==
    IF sender_email = "" \/ sender_password = ""
       THEN "credentials_required"
       ELSE "loop"

\* Lines 186-190: the two precondition checks of the click.
ClickOutcome ==
    IF sender_email = "" \/ sender_password = ""
       THEN "credentials_required"
       ELSE IF recipients = <<>> THEN "recipient_required" ELSE "loop"

\* Lines 185-194: the click, its checks, the loop's start.
Click ==
    /\ hpc = "idle"
    /\ pc = "none"
    /\ hpc' = ClickOutcome
    /\ i' = 0
    /\ report' = <<>>
    /\ UNCHANGED <<sender_email, sender_password, recipients, use_ssl, calls,
                   pc, rcpts, ssl_arg, context, results, idx, escaped, server,
                   log, openSessions>>
    /\ UNCHANGED parserVars

\* The handler passing all the recipients that remain.
SingleRecipient_Remaining(k) == SubSeq(recipients, k + 1, Len(recipients))

\* Line 204: the list the handler passes for index k (0-based, as in range).
SingleRecipient(k) == <<recipients[k + 1]>>

\* Lines 196-210: the handler calls send_bulk_emails for recipients[i].
HandlerCall ==
    /\ hpc = "loop"
    /\ i < Len(recipients)
    /\ Invoke(SingleRecipient(i), use_ssl)
    /\ calls' = Append(calls, SingleRecipient(i))
    /\ hpc' = "calling"
    /\ UNCHANGED <<sender_email, sender_password, recipients, use_ssl, i,
                   report, openSessions>>
    /\ UNCHANGED parserVars

\* Lines 211-213: the call returned; its records join the report.
HandlerExtend ==
    /\ hpc = "calling"
    /\ pc = "returned"
    /\ report' = report \o results
    /\ i' = i + 1
    /\ hpc' = "loop"
    /\ pc' = "none"
    /\ UNCHANGED <<sender_email, sender_password, recipients, use_ssl, calls,
                   rcpts, ssl_arg, context, results, idx, escaped, server,
                   log, openSessions>>
    /\ UNCHANGED parserVars

\* Lines 214-227: the loop is over; the summary and the report are shown.
HandlerSummary ==
    /\ hpc = "loop"
    /\ i >= Len(recipients)
    /\ hpc' = "done"
    /\ UNCHANGED <<sender_email, sender_password, recipients, use_ssl, i,
                   report, calls, pc, rcpts, ssl_arg, context, results, idx,
                   escaped, server, log, openSessions>>
    /\ UNCHANGED parserVars

\* Line 199: an exception that left send_bulk_emails ends the handler.
HandlerAbort ==
    /\ hpc = "calling"
    /\ pc = "raised"
    /\ hpc' = "aborted"
    /\ UNCHANGED <<sender_email, sender_password, recipients, use_ssl, i,
                   report, calls, pc, rcpts, ssl_arg, context, results, idx,
                   escaped, server, log, openSessions>>
    /\ UNCHANGED parserVars

\* Lines 129-141 and 123: the form as the script first renders it, with no
\* environment defaults: nothing typed, no recipients, "Use SSL" ticked.
FormUntouched ==
    /\ sender_email = ""
    /\ sender_password = ""
    /\ recipients = <<>>
    /\ use_ssl = TRUE

\* Line 78: send_bulk_emails called on its own (not through the form), with
\* any recipient list.
DirectCall ==
    /\ hpc = "idle"
    /\ pc = "none"
    /\ FormUntouched
    /\ \E rs \in SeqsUpTo(Addr, MaxRecipients), ssl \in BOOLEAN :
        /\ Invoke(rs, ssl)
        /\ calls' = Append(calls, rs)
    /\ UNCHANGED <<sender_email, sender_password, recipients, use_ssl, hpc, i,
                   report, openSessions>>
    /\ UNCHANGED parserVars

\* ------------------------------------------------------ text, as Python
\* A str is a sequence of one-character strings.
Whitespace == {" ", "\t", "\n"}

\* str.replace(old, new) for one-character old and new.
Replace(str, old, new) ==
    [k \in DOMAIN str |-> IF str[k] = old THEN new ELSE str[k]]

\* str.split(sep) for a one-character sep: the pieces between the separators,
\* the empty ones included.
RECURSIVE Split(_, _)
Split(str, sep) ==
    IF \A k \in DOMAIN str : str[k] # sep
       THEN <<str>>
       ELSE LET at == CHOOSE k \in DOMAIN str :
                          str[k] = sep /\ \A j \in 1..(k - 1) : str[j] # sep
            IN  <<SubSeq(str, 1, at - 1)>>
                    \o Split(SubSeq(str, at + 1, Len(str)), sep)

\* str.splitlines(): the lines, without a last empty one (line breaks other
\* than "\n" are not in the model's alphabets).
Splitlines(str) ==
    LET parts == Split(str, "\n")
    IN  IF parts[Len(parts)] = <<>> THEN SubSeq(parts, 1, Len(parts) - 1)
                                    ELSE parts

\* str.strip(): leading and trailing whitespace removed.
RECURSIVE Strip(_)
Strip(str) ==
    IF str = <<>> THEN <<>>
    ELSE IF Head(str) \in Whitespace THEN Strip(Tail(str))
    ELSE IF str[Len(str)] \in Whitespace THEN Strip(SubSeq(str, 1, Len(str) - 1))
    ELSE str

\* [e.strip() for e in pieces if e.strip()]
RECURSIVE StripNonEmpty(_)
StripNonEmpty(pieces) ==
    IF pieces = <<>> THEN <<>>
    ELSE LET e == Strip(Head(pieces))
         IN  (IF e # <<>> THEN <<e>> ELSE <<>>) \o StripNonEmpty(Tail(pieces))

\* ------------------------------------------- parse_recipients_from_text
\* Line 53 without the replacement of semicolons.
SepText_NoSemicolon(t) == Replace(t, "\n", ",")

\* Line 53: semicolons and newlines become commas.
SepText(t) == Replace(Replace(t, ";", ","), "\n", ",")

\* Lines 51-55.
parse_recipients_from_text(t) == StripNonEmpty(Split(SepText(t), ","))

\* Lines 150-152: the pasted text is parsed.
ParseText ==
    /\ ppc = "text_pasted"
    /\ emails' = parse_recipients_from_text(text)
    /\ ppc' = "text_parsed"
    /\ UNCHANGED <<text, csv>>
    /\ UNCHANGED senderVars

\* -------------------------------------------- parse_recipients_from_csv
\* A DataFrame: its column names and its rows, a cell being text or NaN.
NaN == <<"NaN">>
\* No DataFrame read (yet): one without columns, which read_csv never returns.
NoFrame == [columns |-> <<>>, rows |-> <<>>]
ColumnNames == {"Email", "EMAIL", "name"}
Cells == {NaN, <<" ", "a", " ">>, <<"b">>, <<" ">>}
\* The column layouts read_csv returns here (pandas keeps names distinct).
Headers ==
    {<<"Email">>, <<"name">>, <<"EMAIL">>,
     <<"name", "Email">>, <<"Email", "name">>, <<"name", "EMAIL">>,
     <<"Email", "EMAIL">>}
Frames ==
    UNION {[columns : {h}, rows : SeqsUpTo([1..Len(h) -> Cells], MaxRows)]
              : h \in Headers}

\* str.lower() on the column names of the model.
Lower(c) == IF c \in {"Email", "EMAIL", "email"} THEN "email" ELSE c

\* The lines of a file that the reader does not skip as blank.
Records(content) ==
    SelectSeq(Split(content, "\n"), LAMBDA l : \E k \in DOMAIN l : l[k] # " ")
\* The fields of one line, for a separator.
Fields(line, sep) == 1 + Cardinality({k \in DOMAIN line : line[k] = sep})

\* Lines 29 and 33: whether pd.read_csv(file, sep=sep) raises. It does for a
\* file with no record (EmptyDataError) and for one whose third or later
\* record has more fields than the records before it (ParserError).
ReadCsvRaises(content, sep) ==
    LET recs == Records(content)
    IN  \/ recs = <<>>
        \/ \E k \in 3..Len(recs) :
              \A j \in 1..(k - 1) : Fields(recs[k], sep) > Fields(recs[j], sep)

\* Lines 28-29: the first read, comma-separated.
ReadCsv ==
    /\ ppc = "csv_uploaded"
    /\ IF ReadCsvRaises(text, ",")
          THEN /\ ppc' = "csv_retry"
               /\ UNCHANGED csv
          ELSE /\ ppc' = "csv_table"
               /\ csv' \in Frames
    /\ UNCHANGED <<text, emails>>
    /\ UNCHANGED senderVars

\* Lines 30-34: the second read, semicolon-separated.
RetryReadCsv ==
    /\ ppc = "csv_retry"
    /\ IF ReadCsvRaises(text, ";")
          THEN /\ ppc' = "csv_fallback"
               /\ UNCHANGED csv
          ELSE /\ ppc' = "csv_table"
               /\ csv' \in Frames
    /\ UNCHANGED <<text, emails>>
    /\ UNCHANGED senderVars

\* Line 38: commas become newlines, and each non-empty stripped line is one
\* address.
FallbackParse(t) == StripNonEmpty(Splitlines(Replace(t, ",", "\n")))

\* Lines 35-38: both reads raised; the file is read as plain text.
PlainTextFallback ==
    /\ ppc = "csv_fallback"
    /\ emails' = FallbackParse(text)
    /\ ppc' = "csv_text_parsed"
    /\ UNCHANGED <<text, csv>>
    /\ UNCHANGED senderVars

\* Line 41 with the names compared as they are.
EmailColumn_CaseSensitive(df) ==
    LET named == {j \in DOMAIN df.columns : df.columns[j] = "email"}
    IN  IF named = {} THEN 0
        ELSE CHOOSE j \in named : \A k \in named : k <= j

\* Lines 41-42: cols maps each lowered name to its column, a later column
\* replacing an earlier one of the same lowered name; 0 when 'email' is no
\* key of cols.
EmailColumn(df) ==
    LET named == {j \in DOMAIN df.columns : Lower(df.columns[j]) = "email"}
    IN  IF named = {} THEN 0
        ELSE CHOOSE j \in named : \A k \in named : k <= j

\* df[c]: the cells of column j, by row.
Column(df, j) == [k \in DOMAIN df.rows |-> df.rows[k][j]]

\* .dropna().astype(str).str.strip().tolist(), for cells that are text.
RECURSIVE DropnaStrip(_)
DropnaStrip(cells) ==
    IF cells = <<>> THEN <<>>
    ELSE (IF Head(cells) = NaN THEN <<>> ELSE <<Strip(Head(cells))>>)
            \o DropnaStrip(Tail(cells))

\* Lines 41-49.
SelectEmails(df) ==
    IF EmailColumn(df) # 0
       THEN DropnaStrip(Column(df, EmailColumn(df)))
       ELSE DropnaStrip(Column(df, 1))

\* Lines 40-49: a read succeeded; one column becomes the recipients.
SelectColumn ==
    /\ ppc = "csv_table"
    /\ emails' = SelectEmails(csv)
    /\ ppc' = "csv_table_parsed"
    /\ UNCHANGED <<text, csv>>
    /\ UNCHANGED senderVars

\* ------------------------------------------------------ the specification
ParserOff ==
    /\ ppc = "off"
    /\ text = <<>>
    /\ emails = <<>>
    /\ csv = NoFrame

SenderInit ==
    /\ sender_email \in {"", "me@x"}
    /\ sender_password \in {"", "app-password"}
    /\ recipients \in SeqsUpTo(Addr, MaxRecipients)
    /\ use_ssl \in BOOLEAN
    /\ hpc = "idle"
    /\ i = 0
    /\ report = <<>>
    /\ calls = <<>>
    /\ pc = "none"
    /\ rcpts = <<>>
    /\ ssl_arg = TRUE
    /\ context = DefaultContext
    /\ results = <<>>
    /\ idx = 1
    /\ escaped = FALSE
    /\ server = "none"
    /\ log = <<>>
    /\ openSessions = 0

Init == SenderInit /\ ParserOff

Next ==
    \/ Click
    \/ HandlerCall
    \/ HandlerExtend
    \/ HandlerSummary
    \/ HandlerAbort
    \/ DirectCall
    \/ Connect
    \/ Ehlo
    \/ StartTls
    \/ Login
    \/ Attempt
    \/ LoopEnd
    \/ Finally

Spec == Init /\ [][Next]_vars

\* The sender and the handler at rest, for the parsers' specifications.
SenderOff ==
    /\ FormUntouched
    /\ hpc = "idle"
    /\ i = 0
    /\ report = <<>>
    /\ calls = <<>>
    /\ pc = "none"
    /\ rcpts = <<>>
    /\ ssl_arg = TRUE
    /\ context = DefaultContext
    /\ results = <<>>
    /\ idx = 1
    /\ escaped = FALSE
    /\ server = "none"
    /\ log = <<>>
    /\ openSessions = 0

\* parse_recipients_from_text on every text of the alphabet up to MaxTextLen.
TextAlphabet == {"a", "b", " ", ",", ";", "\n"}

TextInit ==
    /\ ppc = "text_pasted"
    /\ text \in SeqsUpTo(TextAlphabet, MaxTextLen)
    /\ emails = <<>>
    /\ csv = NoFrame
    /\ SenderOff

SpecText == TextInit /\ [][ParseText]_vars

\* parse_recipients_from_csv on uploaded files: no record at all; one column
\* of three records; three records that are ragged for the comma only; three
\* records that are ragged for the comma and for the semicolon.
FileSamples ==
    {<<>>,
     <<"a", "\n", "b", "\n", "a">>,
     <<"a", "\n", "b", "\n", "a", ",", "b">>,
     <<"a", "\n", "b", "\n", "a", ",", "b", ";", "a">>}

CsvInit ==
    /\ ppc = "csv_uploaded"
    /\ text \in FileSamples
    /\ emails = <<>>
    /\ csv = NoFrame
    /\ SenderOff

CsvNext ==
    \/ ReadCsv
    \/ RetryReadCsv
    \/ PlainTextFallback
    \/ SelectColumn

SpecCsv == CsvInit /\ [][CsvNext]_vars

\* ------------------------------------------------- reading the server log
IsConnect(e) == e.op \in {"SMTP", "SMTP_SSL"}
IsAttempt(e) == e.op \in {"build", "send"}
\* The event that ends one pass of the loop: the send, or a build that raised.
IsFinal(e) == e.op = "send" \/ (e.op = "build" /\ e.out # "ok")
IsBuild(e) == e.op = "build"
\* The events that end the session: a quit that succeeded, or a forced close.
IsClosing(e) == (e.op = "quit" /\ e.out = "ok") \/ e.op = "close"

Positions(P(_)) == {k \in DOMAIN log : P(log[k])}
IsOkOf(o, e) == e.op = o /\ e.out = "ok"
LoggedIn == \E k \in DOMAIN log : IsOkOf("login", log[k])
Opened == \E k \in DOMAIN log : IsConnect(log[k]) /\ log[k].out = "ok"
Ended == pc \in {"returned", "raised"}

\* ------------------------------------------------------------------ claims

\* C1: when connect and login succeeded and send_bulk_emails returns, results
\* has exactly one record per recipient, in input order; record k names
\* rcpts[k] and is 'sent' with an empty error when build and send of pass k
\* succeeded, 'failed' with the failure's description when either raised; and
\* every recipient was attempted, whatever happened to those before it.
C1_OneRecordPerRecipientInOrder ==
    (pc = "returned" /\ LoggedIn) =>
        LET finals == SelectSeq(log, IsFinal)
            builds == SelectSeq(log, IsBuild)
        IN  /\ Len(results) = Len(rcpts)
            /\ Len(finals) = Len(rcpts)
            /\ Len(builds) = Len(rcpts)
            /\ \A k \in 1..Len(rcpts) :
                /\ builds[k].arg = rcpts[k]
                /\ finals[k].arg = rcpts[k]
                /\ results[k].recipient = rcpts[k]
                /\ finals[k].out = "ok" =>
                      results[k].status = "sent" /\ results[k].error = ""
                /\ finals[k].out # "ok" =>
                      /\ results[k].status = "failed"
                      /\ results[k].error = finals[k].out

\* Three recipients, the second failing in send: sent, failed, sent.
C1_Witness ==
    /\ pc = "returned"
    /\ LoggedIn
    /\ Len(rcpts) = 3
    /\ Len(results) = 3
    /\ results[1].status = "sent"
    /\ results[2].status = "failed"
    /\ results[3].status = "sent"
    /\ \E k \in DOMAIN log : log[k].op = "send" /\ log[k].out \in Faults

\* C2: when connecting, the TLS upgrade or login failed, send_bulk_emails
\* returns exactly one record, with recipient None, status 'error' and the
\* failure's description, and no message was built or sent, however many
\* recipients were given.
C2_ConnectFailureYieldsOneErrorRecord ==
    /\ ~LoggedIn => Positions(IsAttempt) = {}
    /\ (pc = "returned" /\ ~LoggedIn) =>
        /\ Len(log) >= 1
        /\ log[Len(log)].out \in Faults
        /\ log[Len(log)].op \in {"SMTP", "SMTP_SSL", "ehlo", "starttls", "login"}
        /\ Len(results) = 1
        /\ results[1].recipient = None
        /\ results[1].status = "error"
        /\ results[1].error = log[Len(log)].out

\* Login refused for a list of three recipients.
C2_Witness ==
    /\ pc = "returned"
    /\ Len(rcpts) = 3
    /\ Len(log) >= 1
    /\ log[Len(log)].op = "login"
    /\ log[Len(log)].out = "refused"
    /\ Len(results) = 1

\* C3: on every exit path of an invocation that opened a connection, the
\* session is closed by the time the invocation ends, and no session stays
\* open across invocations.
C3_SessionClosedOnEveryExit ==
    (Ended /\ Opened) => (server = "closed" /\ openSessions = 0)

\* C4: once login has succeeded, quit is attempted exactly once, after the
\* loop, also when an exception left the loop; close is called if and only if
\* quit failed, right after it; nothing is built or sent after quit; the
\* session is closed exactly once.
C4_QuitOnceThenCloseIffQuitFailed ==
    LET quits == Positions(LAMBDA e : e.op = "quit")
        closes == Positions(LAMBDA e : e.op = "close")
    IN  /\ Cardinality(quits) <= 1
        /\ Cardinality(Positions(IsClosing)) <= 1
        /\ \A q \in quits :
            /\ \E l \in DOMAIN log : l < q /\ IsOkOf("login", log[l])
            /\ \A k \in Positions(IsAttempt) : k < q
            /\ (log[q].out # "ok") <=> (q + 1 \in closes)
        /\ \A c \in closes : c - 1 \in quits /\ log[c - 1].out # "ok"
        /\ (LoggedIn /\ Ended) =>
            /\ Cardinality(quits) = 1
            /\ Cardinality(Positions(IsClosing)) = 1
            /\ server = "closed"

\* An exception left the loop, quit failed, and the transport was closed.
C4_Witness ==
    /\ pc = "raised"
    /\ escaped
    /\ Len(log) >= 2
    /\ log[Len(log)].op = "close"
    /\ log[Len(log) - 1].op = "quit"

\* C5: login is only ever attempted over an encrypted transport. With
\* use_ssl false the connection is opened plain and login comes after a
\* STARTTLS that succeeded (a failed one ends the invocation with no login);
\* with use_ssl true the connection is TLS from the start; both use the
\* default context.
C5_LoginOnlyOverTls ==
    /\ \A k \in DOMAIN log :
        /\ IsConnect(log[k]) =>
              /\ k = 1
              /\ log[k].op = (IF ssl_arg THEN "SMTP_SSL" ELSE "SMTP")
              /\ ssl_arg => log[k].arg = DefaultContext
        /\ log[k].op = "starttls" => log[k].arg = DefaultContext
        /\ log[k].op = "login" =>
              /\ log[k].arg = "tls"
              /\ IF ssl_arg
                    THEN IsOkOf("SMTP_SSL", log[1])
                    ELSE /\ IsOkOf("SMTP", log[1])
                         /\ \E j \in 1..(k - 1) : IsOkOf("starttls", log[j])
        /\ (log[k].op = "starttls" /\ log[k].out # "ok") =>
              /\ k = Len(log)
              /\ pc \in {"returned", "none"}

\* Login attempted on the STARTTLS path.
C5_Witness ==
    /\ ~ssl_arg
    /\ \E k \in DOMAIN log : log[k].op = "login"

\* C6 as stated: an empty recipient list never causes a connection attempt
\* and yields an empty result, also when send_bulk_emails is called directly.
C6_EmptyListNeverConnects ==
    (pc # "none" /\ rcpts = <<>>) =>
        /\ Positions(IsConnect) = {}
        /\ pc = "returned" => results = <<>>

\* C6 amended: the send handler rejects a click with zero recipients and
\* never calls send_bulk_emails with an empty list; send_bulk_emails called
\* directly with an empty list does connect and log in first, builds and
\* sends nothing, and returns the empty sequence when login succeeded and the
\* single error record when connecting or login failed.
C6_EmptyListPolicy ==
    /\ (hpc # "idle" /\ recipients = <<>>) =>
          /\ hpc \in {"credentials_required", "recipient_required"}
          /\ calls = <<>>
          /\ log = <<>>
    /\ hpc # "idle" => \A k \in DOMAIN calls : calls[k] # <<>>
    /\ (pc # "none" /\ rcpts = <<>>) =>
          /\ Positions(IsAttempt) = {}
          /\ pc # "connect" => (Len(log) >= 1 /\ IsConnect(log[1]))
          /\ pc = "returned" =>
                IF LoggedIn THEN results = <<>>
                            ELSE /\ Len(results) = 1
                                 /\ results[1].status = "error"

\* A direct call with no recipients connected, logged in and returned <<>>.
C6_Witness ==
    /\ pc = "returned"
    /\ rcpts = <<>>
    /\ Len(calls) = 1
    /\ LoggedIn
    /\ results = <<>>

\* C10: the handler's loop over N >= 1 recipients calls send_bulk_emails N
\* times, the k-th time with [recipients[k]]; each call that returns adds one
\* record, so the finished report has N records in recipient order, the k-th
\* a sent/failed record naming recipients[k] or the error record with
\* recipient None; a connection failure in one call does not stop the later
\* calls.
C10_HandlerOneCallOneRecordPerRecipient ==
    hpc \in {"loop", "calling", "done", "aborted"} =>
        LET n == Len(recipients)
            made == IF hpc \in {"calling", "aborted"} THEN i + 1 ELSE i
        IN  /\ n >= 1
            /\ sender_email # "" /\ sender_password # ""
            /\ Len(calls) = made
            /\ \A k \in 1..made : calls[k] = <<recipients[k]>>
            /\ Len(report) = i
            /\ \A k \in 1..i :
                \/ /\ report[k].status \in {"sent", "failed"}
                   /\ report[k].recipient = recipients[k]
                \/ /\ report[k].status = "error"
                   /\ report[k].recipient = None
            /\ (hpc = "calling" /\ pc = "returned") => Len(results) = 1
            /\ hpc = "done" => i = n

\* A finished report of three: the first call failed to connect or log in,
\* the later two were still made.
C10_Witness ==
    /\ hpc = "done"
    /\ Len(recipients) = 3
    /\ Len(report) = 3
    /\ report[1].status = "error"
    /\ report[2].status = "sent"
    /\ report[3].status = "failed"

\* ------------------------------------------------- the parsers' claims
Separators == {",", ";", "\n"}
Min(S) == CHOOSE x \in S : \A y \in S : x <= y
Max(S) == CHOOSE x \in S : \A y \in S : y <= x

\* The text between the separator (or start) at position p and the next
\* separator (or the end).
SegmentAfter(t, p) ==
    LET q == Min({k \in DOMAIN t : k > p /\ t[k] \in Separators} \cup {Len(t) + 1})
    IN  SubSeq(t, p + 1, q - 1)

\* A text without its leading and trailing whitespace.
Trimmed(str) ==
    LET ink == {k \in DOMAIN str : str[k] \notin Whitespace}
    IN  IF ink = {} THEN <<>> ELSE SubSeq(str, Min(ink), Max(ink))

\* out lists F(k) for the k of K, in increasing order of k.
IsListing(out, K, F(_)) ==
    /\ Len(out) = Cardinality(K)
    /\ \A k \in K : out[Cardinality({j \in K : j <= k})] = F(k)

\* C7: parse_recipients_from_text returns exactly the non-empty trimmed
\* segments between commas, semicolons and newlines, in their order and with
\* duplicates kept; no address is empty, starts or ends with whitespace, or
\* contains a separator.
C7_TextParserListsTrimmedSegments ==
    ppc = "text_parsed" =>
        LET starts == {0} \cup {k \in DOMAIN text : text[k] \in Separators}
            kept == {p \in starts : Trimmed(SegmentAfter(text, p)) # <<>>}
        IN  /\ IsListing(emails, kept, LAMBDA p : Trimmed(SegmentAfter(text, p)))
            /\ \A n \in DOMAIN emails :
                /\ emails[n] # <<>>
                /\ emails[n][1] \notin Whitespace
                /\ emails[n][Len(emails[n])] \notin Whitespace
                /\ \A k \in DOMAIN emails[n] : emails[n][k] \notin Separators

\* A text with all three separators, an address padded with a blank, and an
\* address that occurs twice.
C7_Witness ==
    /\ ppc = "text_parsed"
    /\ \A c \in Separators : \E k \in DOMAIN text : text[k] = c
    /\ \E k \in 1..(Len(text) - 1) : text[k] = " " /\ text[k + 1] = "a"
    /\ Len(emails) = 2
    /\ emails[1] = <<"a">>
    /\ emails[2] = <<"a">>

\* C8: when the file read as a table, the result is the column named 'email'
\* in any case if there is one, wherever it stands, and the first column
\* otherwise; missing cells are dropped, the others trimmed, in row order.
C8_EmailColumnElseFirst ==
    ppc = "csv_table_parsed" =>
        LET named == {j \in DOMAIN csv.columns : Lower(csv.columns[j]) = "email"}
        IN  \E j \in DOMAIN csv.columns :
                /\ IF named # {} THEN j \in named ELSE j = 1
                /\ IsListing(emails,
                             {k \in DOMAIN csv.rows : csv.rows[k][j] # NaN},
                             LAMBDA k : Trimmed(csv.rows[k][j]))

\* 'Email' is the second column; its middle cell is missing, its first cell
\* padded; the first column holds other values.
C8_Witness ==
    /\ ppc = "csv_table_parsed"
    /\ csv.columns = <<"name", "Email">>
    /\ Len(csv.rows) = 3
    /\ csv.rows[1] = <<(<<"b">>), (<<" ", "a", " ">>)>>
    /\ csv.rows[2][2] = NaN
    /\ csv.rows[3] = <<(<<" ", "a", " ">>), (<<"b">>)>>
    /\ emails = <<(<<"a">>), (<<"b">>)>>

\* C9: when both table reads fail, the result equals what
\* parse_recipients_from_text returns for the file's content.
C9_FallbackEqualsTextParser ==
    ppc = "csv_text_parsed" => emails = parse_recipients_from_text(text)

====
